---- MODULE Spec2Model ----
(***************************************************************************)
(* Model of scripts/format-comments.js: the content script that detects    *)
(* AI review comments, rewrites each into a collapsible widget, injects a  *)
(* severity badge into the comment chrome, and rescans on a debounced      *)
(* MutationObserver.                                                       *)
(*                                                                         *)
(* The live document is one tree value.  An element is a record            *)
(*   [tag, cls, text, fmt, kids]                                           *)
(* tag: tag name; cls: set of class names; text: the tokens of the         *)
(* element's own text nodes (String.includes is membership of a token);    *)
(* fmt: dataset.aiFormatted === 'true'; kids: child elements in order.     *)
(* An element is addressed by its path from the root (child indices);      *)
(* document order is preorder of paths.                                    *)
(***************************************************************************)
EXTENDS Integers, Sequences, FiniteSets, TLC

VARIABLES
  doc,            \* the document tree (document.body)
  phase,          \* "load": script not yet run; "watching": observer registered
  timers,         \* pending setTimeout timers: set of [id, left]
  debounceTimer,  \* the handle held by the debounceTimer variable (0: null)
  elapsed,        \* ms since the last observed mutation (saturates at debounceMs)
  hostActive,     \* the host page may still mutate the document
  formatCount,    \* per candidate slot: times formatSingleComment returned true
  ignoredOnce,    \* per candidate slot: whether a scan examined it and left it
                  \* alone unmarked, and the content it had then
  scansSinceHost, \* watcher scans since the last host mutation (saturating)
  changedSinceHost, \* of those, the scans that formatted something
  pc,             \* position inside formatSingleComment (stepwise specification)
  cur,            \* the element formatSingleComment is working on
  parts,          \* the CommentParts it extracted
  arg,            \* argument of a pure function under check
  result          \* its result

vars == <<doc, phase, timers, debounceTimer, elapsed, hostActive, formatCount,
          ignoredOnce, scansSinceHost, changedSinceHost, pc, cur, parts, arg, result>>

-----------------------------------------------------------------------------
(* CONFIG *)

commentSelectors ==
  << <<"comment-body">>, <<"review-comment", "body">>, <<"note-body">>,
     <<"comment-content">> >>

severityIcons == {"icon_red", "icon_orange", "icon_yellow", "icon_blue", "icon_warn"}

sectionLabels == [issue |-> "label_issue", suggestion |-> "label_suggestion",
                  context |-> "label_context"]

debounceMs == 500

SeverityToken == "Severity:"
FolderIcon == "icon_folder"

-----------------------------------------------------------------------------
(* The DOM operations the script uses *)

\* A null reference: no path has a child index 0.
Null == <<0>>

El(tag, cls, text, kids) ==
  [tag |-> tag, cls |-> cls, text |-> text, fmt |-> FALSE, kids |-> kids]

RECURSIVE At(_, _)
At(e, path) == IF path = <<>> THEN e ELSE At(e.kids[Head(path)], Tail(path))

RECURSIVE Exists(_, _)
Exists(e, path) ==
  IF path = <<>> THEN TRUE
  ELSE /\ Head(path) \in 1..Len(e.kids)
       /\ Exists(e.kids[Head(path)], Tail(path))

RECURSIVE ReplaceAt(_, _, _)
ReplaceAt(e, path, new) ==
  IF path = <<>> THEN new
  ELSE [e EXCEPT !.kids[Head(path)] = ReplaceAt(@, Tail(path), new)]

PrefixAll(i, ps) == [k \in 1..Len(ps) |-> <<i>> \o ps[k]]

\* Paths (relative to e) of the proper descendants of e from child i on, in
\* document order.
RECURSIVE DescFrom(_, _)
DescFrom(e, i) ==
  IF i > Len(e.kids) THEN <<>>
  ELSE PrefixAll(i, <<<<>>>> \o DescFrom(e.kids[i], 1)) \o DescFrom(e, i + 1)

\* Absolute paths of the proper descendants of the element at p.
Descendants(d, p) ==
  LET rel == DescFrom(At(d, p), 1) IN [k \in 1..Len(rel) |-> p \o rel[k]]

RECURSIVE TextContent(_)
TextContent(e) ==
  e.text \cup UNION {TextContent(e.kids[i]) : i \in 1..Len(e.kids)}

IsPrefix(p, q) == Len(p) <= Len(q) /\ SubSeq(q, 1, Len(p)) = p

\* Node.contains: inclusive descendant.
Contains(p, q) == IsPrefix(p, q)

ParentElement(p) == IF p = <<>> THEN Null ELSE SubSeq(p, 1, Len(p) - 1)

NextElementSibling(d, p) ==
  IF p = <<>> THEN Null
  ELSE LET q == [p EXCEPT ![Len(p)] = @ + 1] IN
       IF Exists(d, q) THEN q ELSE Null

\* The first element of a sequence of paths satisfying Test, or Null.
FirstWhere(ps, Test(_)) ==
  LET hits == SelectSeq(ps, Test) IN IF hits = <<>> THEN Null ELSE hits[1]

HasTag(d, p, tag) == At(d, p).tag = tag
HasClass(d, p, c) == c \in At(d, p).cls

\* element.querySelector(tag) / querySelector('.' + class): first descendant.
QueryTag(d, p, tag) == FirstWhere(Descendants(d, p), LAMBDA q : HasTag(d, q, tag))
QueryClass(d, p, c) == FirstWhere(Descendants(d, p), LAMBDA q : HasClass(d, q, c))

\* element.closest('.' + class) / closest(tag): nearest inclusive ancestor.
RECURSIVE ClosestClass(_, _, _)
ClosestClass(d, p, c) ==
  IF HasClass(d, p, c) THEN p
  ELSE IF p = <<>> THEN Null
  ELSE ClosestClass(d, ParentElement(p), c)

RECURSIVE ClosestTag(_, _, _)
ClosestTag(d, p, tag) ==
  IF HasTag(d, p, tag) THEN p
  ELSE IF p = <<>> THEN Null
  ELSE ClosestTag(d, ParentElement(p), tag)

\* A selector is a sequence of class names joined by the descendant combinator.
RECURSIVE MatchesSelector(_, _, _)
MatchesSelector(d, p, sel) ==
  /\ HasClass(d, p, sel[Len(sel)])
  /\ \/ Len(sel) = 1
     \/ \E k \in 0..(Len(p) - 1) :
          MatchesSelector(d, SubSeq(p, 1, k), SubSeq(sel, 1, Len(sel) - 1))

\* document.querySelectorAll(commentSelectors.join(', ')): document order.
QueryComments(d) ==
  SelectSeq(<<<<>>>> \o Descendants(d, <<>>),
            LAMBDA p : \E i \in 1..Len(commentSelectors) :
                          MatchesSelector(d, p, commentSelectors[i]))

Range(s) == {s[i] : i \in 1..Len(s)}

-----------------------------------------------------------------------------
(* Utilities *)

\* The mutant keeps the outermost elements instead (contains() reversed).
filterOutermostElements(elements) ==
  SelectSeq(elements,
            LAMBDA el : ~ \E i \in 1..Len(elements) :
                            elements[i] # el /\ Contains(elements[i], el))

filterInnermostElements(elements) ==
  SelectSeq(elements,
            LAMBDA el : ~ \E i \in 1..Len(elements) :
                            elements[i] # el /\ Contains(el, elements[i]))

-----------------------------------------------------------------------------
(* Comment detection helpers *)

isAIReviewComment(d, element) ==
  LET h3 == QueryTag(d, element, "H3") IN
  IF h3 = Null THEN FALSE
  ELSE LET text == TextContent(At(d, h3)) IN
       /\ SeverityToken \in text
       /\ \E icon \in severityIcons : icon \in text

RECURSIVE findNextBlockquoteFrom(_, _)
findNextBlockquoteFrom(d, sibling) ==
  IF sibling = Null THEN Null
  ELSE IF HasTag(d, sibling, "BLOCKQUOTE") THEN sibling
  ELSE IF HasTag(d, sibling, "HR") \/ QueryTag(d, sibling, "STRONG") # Null
       THEN Null
  ELSE findNextBlockquoteFrom(d, NextElementSibling(d, sibling))

findNextBlockquote(d, startNode) ==
  findNextBlockquoteFrom(d, NextElementSibling(d, startNode))

extractSection(d, element, label) ==
  LET strong == FirstWhere(Descendants(d, element),
                           LAMBDA q : /\ HasTag(d, q, "STRONG")
                                      /\ label \in TextContent(At(d, q)))
  IN IF strong = Null THEN [header |-> Null, blockquote |-> Null]
     ELSE LET anchor == IF ParentElement(strong) = element THEN strong
                        ELSE ParentElement(strong)
          IN [header |-> anchor, blockquote |-> findNextBlockquote(d, anchor)]

-----------------------------------------------------------------------------
(* Part extraction *)

extractCommentParts(d, element) ==
  [severityH3 |-> QueryTag(d, element, "H3"),
   filePathEl |->
     FirstWhere(Descendants(d, element),
                LAMBDA child :
                  /\ \/ HasTag(d, child, "DIV") /\ HasClass(d, child, "paragraph")
                     \/ HasTag(d, child, "P")
                  /\ FolderIcon \in At(d, child).text
                  /\ ClosestTag(d, child, "H3") = Null
                  /\ ClosestTag(d, child, "DETAILS") = Null),
   issue |-> extractSection(d, element, sectionLabels.issue),
   suggestion |-> extractSection(d, element, sectionLabels.suggestion),
   context |-> extractSection(d, element, sectionLabels.context)]

NoParts ==
  LET none == [header |-> Null, blockquote |-> Null] IN
  [severityH3 |-> Null, filePathEl |-> Null, issue |-> none,
   suggestion |-> none, context |-> none]

-----------------------------------------------------------------------------
(* Severity badge injection into comment header *)

RECURSIVE FallbackContainer(_, _)
FallbackContainer(d, container) ==
  IF container = Null THEN Null
  ELSE IF QueryClass(d, container, "comment-header") # Null THEN container
  ELSE FallbackContainer(d, ParentElement(container))

\* The chrome container the injector resolves for a comment body, or Null.
ChromeContainer(d, commentBodyEl) ==
  LET closest == ClosestClass(d, commentBodyEl, "comment") IN
  IF closest # Null THEN closest
  ELSE FallbackContainer(d, ParentElement(commentBodyEl))

\* headerText.insertAdjacentElement('afterend', new)
InsertAfter(d, p, new) ==
  LET q == ParentElement(p)
      i == p[Len(p)]
      e == At(d, q)
  IN ReplaceAt(d, q, [e EXCEPT !.kids = SubSeq(@, 1, i) \o <<new>>
                                          \o SubSeq(@, i + 1, Len(@))])

\* The badge: a div whose innerHTML is the heading's innerHTML.
Badge(h3) == El("DIV", {"ai-severity-badge"}, h3.text, h3.kids)

\* Mutant: the duplicate-injection guard is left out.
HasBadgeNever(d, header) == FALSE

\* header.querySelector('.ai-severity-badge') is not null (line 281).
HasBadge(d, header) == QueryClass(d, header, "ai-severity-badge") # Null

injectSeverityIntoHeader(d, commentBodyEl, severityH3) ==
  IF severityH3 = Null THEN d
  ELSE LET container == ChromeContainer(d, commentBodyEl) IN
  IF container = Null THEN d
  ELSE LET header == QueryClass(d, container, "comment-header") IN
  IF header = Null THEN d
  ELSE LET headerText == QueryClass(d, header, "comment-header-text") IN
  IF headerText = Null THEN d
  ELSE IF HasBadge(d, header) THEN d
  ELSE InsertAfter(d, headerText, Badge(At(d, severityH3)))

-----------------------------------------------------------------------------
(* DOM construction *)

\* node.cloneNode(true): a deep copy, attributes included.
CloneNode(e) == e

\* appendClonedIfPresent for one node.
ClonedIfPresent(d, node) == IF node = Null THEN <<>> ELSE <<CloneNode(At(d, node))>>

Hr == El("HR", {}, {}, <<>>)

buildFormattedDetails(d, p) ==
  LET bq == p.suggestion.blockquote
      inner == IF bq = Null THEN Null
               ELSE FirstWhere(Descendants(d, bq),
                               LAMBDA q : HasClass(d, q, "paragraph") \/ HasTag(d, q, "P"))
      excerpt == IF bq = Null THEN <<>>
                 ELSE IF inner # Null
                      THEN <<El("DIV", {"paragraph"}, At(d, inner).text, At(d, inner).kids)>>
                 ELSE <<CloneNode(At(d, bq))>>
      hint == El("SPAN", {"ai-expand-hint"}, {"hint_glyph"}, <<>>)
      summary == El("SUMMARY", {}, {}, excerpt \o <<hint>>)
  IN El("DETAILS", {"ai-review-details"}, {},
        <<summary, Hr>> \o ClonedIfPresent(d, p.filePathEl) \o <<Hr>>
          \o ClonedIfPresent(d, p.issue.header)
          \o ClonedIfPresent(d, p.issue.blockquote)
          \o ClonedIfPresent(d, p.context.header)
          \o ClonedIfPresent(d, p.context.blockquote))

-----------------------------------------------------------------------------
(* Formatting logic *)

\* Mutant: the processed marker is never consulted.
IsFormattedNever(d, element) == FALSE

\* element.dataset.aiFormatted === 'true' (line 361)
IsFormatted(d, element) == At(d, element).fmt

\* Mutant: the marker write is left out.
SetMarkerSkipped(d, element) == d

\* element.dataset.aiFormatted = 'true' (line 364)
SetMarker(d, element) == ReplaceAt(d, element, [At(d, element) EXCEPT !.fmt = TRUE])

\* element.innerHTML = ''; element.appendChild(details) (lines 373-374)
ReplaceBody(d, element, details) ==
  ReplaceAt(d, element, [At(d, element) EXCEPT !.text = {}, !.kids = <<details>>])

\* [doc, formatted]: the document afterwards and the returned boolean.
formatSingleComment(d, element) ==
  IF IsFormatted(d, element) THEN [doc |-> d, formatted |-> FALSE]
  ELSE IF ~ isAIReviewComment(d, element) THEN [doc |-> d, formatted |-> FALSE]
  ELSE LET d1 == SetMarker(d, element)
           p == extractCommentParts(d1, element)
           d2 == injectSeverityIntoHeader(d1, element, p.severityH3)
           details == buildFormattedDetails(d2, p)
       IN [doc |-> ReplaceBody(d2, element, details), formatted |-> TRUE]

RECURSIVE FormatEach(_, _, _, _)
FormatEach(d, comments, i, formatted) ==
  IF i > Len(comments) THEN [doc |-> d, formatted |-> formatted]
  ELSE LET r == formatSingleComment(d, comments[i]) IN
       FormatEach(r.doc, comments, i + 1,
                  IF r.formatted THEN formatted \cup {comments[i]} ELSE formatted)

\* [doc, formatted, comments]: the document after the scan, the comments
\* counted in formattedCount, and the innermost candidates examined.
formatComments(d) ==
  LET comments == filterInnermostElements(QueryComments(d))
      r == FormatEach(d, comments, 1, {})
  IN [doc |-> r.doc, formatted |-> r.formatted, comments |-> comments]

-----------------------------------------------------------------------------
(* The host page.  One comment thread: a chrome container holding a chrome   *)
(* header, an outer .comment-content (slot <<1, 2>>) that may wrap an inner  *)
(* .comment-body (slot <<1, 2, 1>>), and a .note-body (slot <<1, 3>>).  The  *)
(* chrome header holds no comment body, so inserting a badge moves no        *)
(* element a part of a comment refers to.                                    *)

MaxTimers == 2    \* pending timers kept apart before host mutations are held back
CountCap == 2     \* formatCount saturates here
ScanCap == 3      \* scansSinceHost and changedSinceHost saturate here
TickMs == 250     \* granularity of the clock

Text(tag, tokens) == El(tag, {}, tokens, <<>>)
Wrap(tag, kids) == El(tag, {}, {}, kids)

\* Comment bodies the host renders.
BodyEmpty == <<>>
BodyAI ==
  << Text("H3", {SeverityToken, "High", "icon_red"}),
     Text("P", {FolderIcon, "src/app.ts"}),
     Wrap("P", <<Text("STRONG", {sectionLabels.issue})>>),
     Wrap("BLOCKQUOTE", <<Text("P", {"off-by-one"})>>),
     Hr,
     Wrap("P", <<Text("STRONG", {sectionLabels.suggestion})>>),
     Wrap("BLOCKQUOTE", <<Text("P", {"use <="})>>) >>
\* The issue label sits inside the severity heading, so the heading is the
\* issue section's header and is cloned into the widget.
BodyLabelInHeading ==
  << El("H3", {}, {SeverityToken, "icon_warn"},
        <<Text("STRONG", {sectionLabels.issue})>>),
     Text("BLOCKQUOTE", {"null deref"}) >>

Bodies == {BodyEmpty, BodyAI, BodyLabelInHeading}

CommentBody(kids) == El("DIV", {"comment-body"}, {}, kids)
CommentContent(kids) == El("DIV", {"comment-content"}, {}, kids)
NoteBody(kids) == El("DIV", {"note-body"}, {}, kids)
Placeholder == El("DIV", {}, {}, <<>>)

Slot1 == <<1, 2>>
Slot2 == <<1, 2, 1>>
Slot3 == <<1, 3>>
SlotPaths == {Slot1, Slot2, Slot3}

\* What the host may put inside the element at a slot.
Contents(p) ==
  IF p = Slot1 THEN Bodies \cup {<<CommentBody(b)>> : b \in {BodyEmpty, BodyAI}}
  ELSE {BodyEmpty, BodyAI}

\* Fresh elements the host may put at a slot (SPA navigation).
FreshElements(p) ==
  IF p = Slot1 THEN {CommentContent(c) : c \in Contents(Slot1)}
  ELSE IF p = Slot3 THEN {NoteBody(b) : b \in Contents(Slot3)} \cup {Placeholder}
  ELSE {CommentBody(b) : b \in Bodies}

HeaderWith(kids) == El("DIV", {"comment-header"}, {}, kids)
Actions1 == El("SPAN", {"comment-header-primary-actions"}, {}, <<>>)
Actions2 == El("SPAN", {"comment-header-secondary-actions"}, {}, <<>>)
HeaderText == El("SPAN", {"comment-header-text"}, {"alice commented"}, <<>>)

\* [container class, first child of the container]
ChromeFull == <<"comment", HeaderWith(<<Actions1, HeaderText, Actions2>>)>>
ChromeNoText == <<"comment", HeaderWith(<<Actions1, Actions2>>)>>
ChromeFallback == <<"thread", HeaderWith(<<Actions1, HeaderText, Actions2>>)>>
ChromeNone == <<"thread", El("DIV", {"toolbar"}, {}, <<>>)>>
Chromes == {ChromeFull, ChromeNoText, ChromeFallback, ChromeNone}

Page(chrome, slot1, slot3) ==
  El("BODY", {}, {}, <<El("DIV", {chrome[1]}, {}, <<chrome[2], slot1, slot3>>)>>)

InitDocs ==
  { Page(ch, s1, s3) : ch \in {ChromeFull, ChromeNone}, s1 \in FreshElements(Slot1),
                       s3 \in FreshElements(Slot3) }

IsComment(d, p) == Exists(d, p) /\ p \in Range(QueryComments(d))

Min(a, b) == IF a < b THEN a ELSE b
Max(a, b) == IF a > b THEN a ELSE b

-----------------------------------------------------------------------------
(* Change watcher *)

\* Mutant: the pending timer is not cancelled.
ClearTimeoutSkipped(tm, handle) == tm

\* clearTimeout(handle): a handle of no pending timer clears nothing.
ClearTimeout(tm, handle) == {t \in tm : t.id # handle}

FreshTimerId(tm) ==
  CHOOSE i \in 1..(Cardinality(tm) + 1) :
    /\ \A t \in tm : t.id # i
    /\ \A j \in 1..(i - 1) : \E t \in tm : t.id = j

\* The MutationObserver callback: [timers, handle] afterwards.
ObserverCallback(tm, handle) ==
  LET cleared == ClearTimeout(tm, handle)
      id == FreshTimerId(cleared)
  IN [timers |-> cleared \cup {[id |-> id, left |-> debounceMs]}, handle |-> id]

-----------------------------------------------------------------------------
(* The full system: load-time scan, host mutations, debounced rescans *)

NoCall == [f |-> "none"]
NotIgnored == [seen |-> FALSE, kids |-> <<>>]

Init ==
  /\ doc \in InitDocs
  /\ phase = "load"
  /\ timers = {}
  /\ debounceTimer = 0
  /\ elapsed = debounceMs
  /\ hostActive = TRUE
  /\ formatCount = [p \in SlotPaths |-> 0]
  /\ ignoredOnce = [p \in SlotPaths |-> NotIgnored]
  /\ scansSinceHost = 0
  /\ changedSinceHost = 0
  /\ pc = "idle"
  /\ cur = NoCall
  /\ parts = NoParts
  /\ arg = NoCall
  /\ result = NoCall

\* What a scan of document d records about the candidate slots.
CountAfter(r) ==
  [p \in SlotPaths |->
     IF p \in r.formatted THEN Min(formatCount[p] + 1, CountCap) ELSE formatCount[p]]

IgnoredAfter(d, r) ==
  [p \in SlotPaths |->
     IF p \in Range(r.comments) /\ p \notin r.formatted /\ ~ At(d, p).fmt
     THEN [seen |-> TRUE, kids |-> At(d, p).kids]
     ELSE ignoredOnce[p]]

ScanBookkeeping(d, r) ==
  /\ formatCount' = CountAfter(r)
  /\ ignoredOnce' = IgnoredAfter(d, r)
  /\ scansSinceHost' = Min(scansSinceHost + 1, ScanCap)
  /\ changedSinceHost' =
       IF r.formatted # {} THEN Min(changedSinceHost + 1, ScanCap)
       ELSE changedSinceHost

\* Lines 406-414: the load-time scan; the observer is registered after it, so
\* it does not see this scan's writes.
InitialScan ==
  /\ phase = "load"
  /\ \E r \in {formatComments(doc)} :
       /\ doc' = r.doc
       /\ ScanBookkeeping(doc, r)
  /\ phase' = "watching"
  /\ UNCHANGED <<timers, debounceTimer, elapsed, hostActive, pc, cur, parts, arg, result>>

\* A childList mutation under document.body was observed.
Observed(tm) ==
  LET o == ObserverCallback(tm, debounceTimer) IN
  /\ timers' = o.timers
  /\ debounceTimer' = o.handle
  /\ elapsed' = 0

\* The debounce timer fires: formatComments runs; its own writes are observed.
TimerFire(t) ==
  /\ phase = "watching"
  /\ t \in timers
  /\ t.left = 0
  /\ \E r \in {formatComments(doc)} :
       /\ doc' = r.doc
       /\ ScanBookkeeping(doc, r)
       /\ IF r.formatted # {}
          THEN Observed(timers \ {t})
          ELSE /\ timers' = timers \ {t}
               /\ UNCHANGED <<debounceTimer, elapsed>>
  /\ UNCHANGED <<phase, hostActive, pc, cur, parts, arg, result>>

\* Time passes.  A due timer may fire late, never early.
Tick ==
  /\ phase = "watching"
  /\ \/ \E t \in timers : t.left > 0
     \/ elapsed < debounceMs
  /\ timers' = {[t EXCEPT !.left = Max(@ - TickMs, 0)] : t \in timers}
  /\ elapsed' = Min(elapsed + TickMs, debounceMs)
  /\ UNCHANGED <<doc, phase, debounceTimer, hostActive, formatCount, ignoredOnce,
                 scansSinceHost, changedSinceHost, pc, cur, parts, arg, result>>

HostMayAct ==
  /\ phase = "watching"
  /\ hostActive
  /\ Cardinality(timers) <= MaxTimers

\* The node instances at and below slot p are gone.
ForgetBelow(p, strictly) ==
  LET gone == {q \in SlotPaths : IsPrefix(p, q) /\ (strictly => q # p)} IN
  /\ formatCount' = [q \in SlotPaths |-> IF q \in gone THEN 0 ELSE formatCount[q]]
  /\ ignoredOnce' = [q \in SlotPaths |-> IF q \in gone THEN NotIgnored ELSE ignoredOnce[q]]

\* Lazy loading: the host fills in (or changes) the content of a comment
\* body; the element itself, and its dataset, stay.
HostSetContent(p, kids) ==
  /\ HostMayAct
  /\ IsComment(doc, p)
  /\ doc' = ReplaceAt(doc, p, [At(doc, p) EXCEPT !.text = {}, !.kids = kids])
  /\ ForgetBelow(p, TRUE)
  /\ Observed(timers)
  /\ scansSinceHost' = 0
  /\ changedSinceHost' = 0
  /\ UNCHANGED <<phase, hostActive, pc, cur, parts, arg, result>>

\* SPA navigation: the host replaces the element at a slot by a fresh one.
HostReplace(p, e) ==
  /\ HostMayAct
  /\ Exists(doc, p)
  /\ doc' = ReplaceAt(doc, p, e)
  /\ ForgetBelow(p, FALSE)
  /\ Observed(timers)
  /\ scansSinceHost' = 0
  /\ changedSinceHost' = 0
  /\ UNCHANGED <<phase, hostActive, pc, cur, parts, arg, result>>

\* The host page stops changing the document.
HostStop ==
  /\ phase = "watching"
  /\ hostActive
  /\ hostActive' = FALSE
  /\ UNCHANGED <<doc, phase, timers, debounceTimer, elapsed, formatCount, ignoredOnce,
                 scansSinceHost, changedSinceHost, pc, cur, parts, arg, result>>

Next ==
  \/ InitialScan
  \/ \E t \in timers : TimerFire(t)
  \/ Tick
  \/ \E p \in SlotPaths : \E kids \in Contents(p) : HostSetContent(p, kids)
  \/ \E p \in {Slot1, Slot3} : \E e \in FreshElements(p) : HostReplace(p, e)
  \/ HostStop

Spec == Init /\ [][Next]_vars

\* The timer queue runs a due timer, and time passes.
\* The enabling conditions of the two scan actions: formatComments is total,
\* and a timer that fires leaves the set of pending timers changed.
LoadPending == phase = "load"
TimerDue == phase = "watching" /\ \E t \in timers : t.left = 0

\* The event loop: the script runs once the page is idle, a due timer's
\* callback runs unless the timer is cancelled first, and time passes.  The
\* weak fairness of the two scan actions is written out,
\*   WF_vars(A) == []<>~(ENABLED <<A>>_vars) \/ []<><<A>>_vars,
\* with ENABLED <<A>>_vars stated as the state predicate above.
FairSpec ==
  /\ Spec
  /\ WF_vars(Tick)
  /\ []<>(~ LoadPending) \/ []<><<InitialScan>>_vars
  /\ []<>(~ TimerDue) \/ []<><<\E t \in timers : TimerFire(t)>>_vars

-----------------------------------------------------------------------------
(* Properties of the full system *)

Marked(d, p) == Exists(d, p) /\ At(d, p).fmt

InnermostComments(d) == Range(filterInnermostElements(QueryComments(d)))

ChromeHeader == <<1, 1>>

BadgeCount(d) ==
  Cardinality({k \in 1..Len(Descendants(d, ChromeHeader)) :
                 HasClass(d, Descendants(d, ChromeHeader)[k], "ai-severity-badge")})

\* C1: a scan that follows a scan with no host mutation in between changes
\* nothing: it leaves bodies, markers and chrome as they are and formats no
\* comment.
C1_ScanIdempotent ==
  (phase = "watching" /\ scansSinceHost >= 1) =>
    LET r == formatComments(doc) IN r.doc = doc /\ r.formatted = {}

\* Two scans in a row have run, the first formatted a comment whose widget
\* still matches the signature, and the chrome carries its badge.
C1_Witness ==
  /\ scansSinceHost = 2
  /\ changedSinceHost = 1
  /\ BadgeCount(doc) = 1
  /\ \E p \in SlotPaths :
       formatCount[p] = 1 /\ IsComment(doc, p) /\ isAIReviewComment(doc, p)

\* C2: a node instance is processed by formatSingleComment at most once,
\* whatever the host does to its content afterwards, and a processed
\* instance keeps its marker for as long as it exists.
C2_ProcessedOnce ==
  \A p \in SlotPaths :
    /\ formatCount[p] <= 1
    /\ formatCount[p] >= 1 => Marked(doc, p)

\* A processed instance whose content the host changed back to a matching
\* comment has been scanned again and left alone.
C2_Witness ==
  \E p \in SlotPaths :
    /\ formatCount[p] = 1
    /\ Marked(doc, p)
    /\ At(doc, p).kids = BodyAI
    /\ scansSinceHost >= 1

WatcherScanStep ==
  phase = "watching" /\ scansSinceHost' # scansSinceHost /\ scansSinceHost' > 0

\* C3: at most one debounce timer is pending; every mutation of the document
\* the observer sees leaves exactly one timer, armed for the full delay; a
\* watcher scan runs only from a due timer once the full delay has passed
\* since the last observed mutation, and leaves no timer pending unless its
\* own writes were observed: one scan per burst, after the burst's last
\* mutation.
C3_DebounceCoalescing ==
  /\ [](Cardinality(timers) <= 1)
  /\ [][(phase = "watching" /\ doc' # doc) =>
          /\ elapsed' = 0
          /\ Cardinality(timers') = 1
          /\ \A t \in timers' : t.left = debounceMs /\ t.id = debounceTimer']_vars
  /\ [][WatcherScanStep =>
          /\ elapsed >= debounceMs
          /\ \E t \in timers : t.left = 0
          /\ timers' = {} \/ (doc' # doc /\ elapsed' = 0)]_vars

\* A burst of two mutations less than the delay apart has been followed by
\* its one scan.
C3_Witness ==
  /\ phase = "watching"
  /\ scansSinceHost = 1
  /\ timers = {}
  /\ debounceTimer # 0
  /\ \E p \in SlotPaths : ignoredOnce[p].seen

\* Nothing is pending and every innermost candidate that matches the
\* signature has been marked and replaced.
Quiescent ==
  /\ timers = {}
  /\ \A p \in InnermostComments(doc) :
       isAIReviewComment(doc, p) => Marked(doc, p) /\ formatCount[p] = 1

\* C10: after the last host mutation at most two scans run: at most one that
\* changes the document, then at most one that changes nothing; and once the
\* host has stopped the system ends up quiescent for good.
C10_Quiescence ==
  /\ [](/\ scansSinceHost <= 2
        /\ changedSinceHost <= 1
        /\ scansSinceHost = 2 => changedSinceHost = 1)
  /\ <>[](hostActive \/ Quiescent)

\* The host has stopped; the scan after its last mutation formatted a
\* comment, the scan that its writes triggered changed nothing, and no timer
\* is pending.
C10_Witness ==
  /\ ~ hostActive
  /\ scansSinceHost = 2
  /\ changedSinceHost = 1
  /\ Quiescent
  /\ \E p \in SlotPaths : formatCount[p] = 1

-----------------------------------------------------------------------------
(* One scan, statement by statement: formatComments' loop and the steps of   *)
(* formatSingleComment.  The script runs to completion, so nothing else      *)
(* interleaves.  arg holds the document as it was when the scan started,     *)
(* cur.before the document as it was when the current comment's turn began.  *)

StepsDocs ==
  { Page(ch, s1, s3) : ch \in Chromes, s1 \in FreshElements(Slot1),
                       s3 \in FreshElements(Slot3) }

NoScan == [comments |-> <<>>, i |-> 0, before |-> Placeholder]

Detached ==
  /\ phase = "load"
  /\ timers = {}
  /\ debounceTimer = 0
  /\ elapsed = debounceMs
  /\ hostActive = FALSE
  /\ ignoredOnce = [p \in SlotPaths |-> NotIgnored]
  /\ scansSinceHost = 0
  /\ changedSinceHost = 0

DetachedUnchanged ==
  UNCHANGED <<phase, timers, debounceTimer, elapsed, hostActive, ignoredOnce,
              scansSinceHost, changedSinceHost>>

StepsInit ==
  /\ Detached
  /\ doc \in StepsDocs
  /\ formatCount = [p \in SlotPaths |-> 0]
  /\ pc = "idle"
  /\ cur = NoScan
  /\ parts = NoParts
  /\ arg = doc
  /\ result = NoCall

Element == cur.comments[cur.i]

\* Lines 384-386.
ScanStart ==
  /\ pc \in {"idle", "done"}
  /\ cur' = [comments |-> filterInnermostElements(QueryComments(doc)), i |-> 1,
             before |-> doc]
  /\ arg' = doc
  /\ pc' = "loop"
  /\ UNCHANGED <<doc, formatCount, parts, result>>
  /\ DetachedUnchanged

\* Lines 394-398: the loop is over.
ScanEnd ==
  /\ pc = "loop"
  /\ cur.i > Len(cur.comments)
  /\ pc' = "done"
  /\ UNCHANGED <<doc, formatCount, cur, parts, arg, result>>
  /\ DetachedUnchanged

\* Lines 361-362: formatSingleComment returns false.
SkipComment ==
  /\ pc = "loop"
  /\ cur.i <= Len(cur.comments)
  /\ IsFormatted(doc, Element) \/ ~ isAIReviewComment(doc, Element)
  /\ cur' = [cur EXCEPT !.i = @ + 1, !.before = doc]
  /\ UNCHANGED <<doc, formatCount, pc, parts, arg, result>>
  /\ DetachedUnchanged

\* Lines 361-364.
MarkComment ==
  /\ pc = "loop"
  /\ cur.i <= Len(cur.comments)
  /\ ~ IsFormatted(doc, Element)
  /\ isAIReviewComment(doc, Element)
  /\ doc' = SetMarker(doc, Element)
  /\ cur' = [cur EXCEPT !.before = doc]
  /\ pc' = "marked"
  /\ UNCHANGED <<formatCount, parts, arg, result>>
  /\ DetachedUnchanged

\* Line 366.
ExtractParts ==
  /\ pc = "marked"
  /\ parts' = extractCommentParts(doc, Element)
  /\ pc' = "extracted"
  /\ UNCHANGED <<doc, formatCount, cur, arg, result>>
  /\ DetachedUnchanged

\* Line 369.
InjectBadge ==
  /\ pc = "extracted"
  /\ doc' = injectSeverityIntoHeader(doc, Element, parts.severityH3)
  /\ pc' = "header-injected"
  /\ UNCHANGED <<formatCount, cur, parts, arg, result>>
  /\ DetachedUnchanged

\* Lines 371-375, and the loop's next turn.
ReplaceComment ==
  /\ pc = "header-injected"
  /\ doc' = ReplaceBody(doc, Element, buildFormattedDetails(doc, parts))
  /\ formatCount' = [formatCount EXCEPT ![Element] = Min(@ + 1, CountCap)]
  /\ cur' = [cur EXCEPT !.i = @ + 1, !.before = doc']
  /\ parts' = NoParts
  /\ pc' = "loop"
  /\ UNCHANGED <<arg, result>>
  /\ DetachedUnchanged

StepsNext ==
  \/ ScanStart
  \/ ScanEnd
  \/ SkipComment
  \/ MarkComment
  \/ ExtractParts
  \/ InjectBadge
  \/ ReplaceComment

SpecSteps == StepsInit /\ [][StepsNext]_vars

Partway == pc \in {"marked", "extracted", "header-injected"}

OnlyMarked(e) == [e EXCEPT !.fmt = TRUE]

\* C4: the marker is the first write and the body replacement the last.
\* Right after the marker write nothing but the marker differs; until the
\* replacement the comment is marked with its body as it was; and any
\* examined comment whose body differs from what the scan found, or whose
\* turn added a badge, is marked.
C4_MarkerFirstReplaceLast ==
  /\ pc \in {"marked", "extracted"} =>
       doc = ReplaceAt(cur.before, Element, OnlyMarked(At(cur.before, Element)))
  /\ Partway =>
       /\ Marked(doc, Element)
       /\ At(doc, Element) = OnlyMarked(At(cur.before, Element))
       /\ BadgeCount(doc) # BadgeCount(cur.before) => pc = "header-injected"
  /\ \A p \in Range(cur.comments) :
       At(doc, p).kids # At(arg, p).kids => Marked(doc, p)
  /\ BadgeCount(doc) > BadgeCount(arg) =>
       \E p \in Range(cur.comments) : Marked(doc, p) /\ ~ Marked(arg, p)

\* The badge is in, the marker is set, the body is still the original.
C4_Witness ==
  /\ pc = "header-injected"
  /\ BadgeCount(doc) = 1
  /\ BadgeCount(cur.before) = 0
  /\ Marked(doc, Element)
  /\ At(doc, Element).kids = BodyAI

HeaderTextAnchor(d) ==
  IF HasClass(d, ChromeHeader, "comment-header")
  THEN QueryClass(d, ChromeHeader, "comment-header-text")
  ELSE Null

\* Calls of injectSeverityIntoHeader so far (every one with a heading).
InjectorCalls ==
  formatCount[Slot1] + formatCount[Slot2] + formatCount[Slot3]
    + (IF pc = "header-injected" THEN 1 ELSE 0)

\* C9: the chrome header never holds more than one badge; once the injector
\* has been called, once or more, on a header that has a header-text anchor,
\* the header holds exactly one badge, right after the anchor.
C9_OneBadge ==
  /\ BadgeCount(doc) <= 1
  /\ (InjectorCalls >= 1 /\ HeaderTextAnchor(doc) # Null) =>
       /\ BadgeCount(doc) = 1
       /\ NextElementSibling(doc, HeaderTextAnchor(doc)) # Null
       /\ HasClass(doc, NextElementSibling(doc, HeaderTextAnchor(doc)),
                   "ai-severity-badge")

\* Two comments of the same chrome container have both been through the
\* injector.
C9_Witness ==
  /\ pc = "done"
  /\ formatCount[Slot2] = 1
  /\ formatCount[Slot3] = 1
  /\ HeaderTextAnchor(doc) # Null
  /\ BadgeCount(doc) = 1

-----------------------------------------------------------------------------
(* The pure helpers, each applied to inputs drawn from a bounded set *)

MaxList == 3       \* longest list handed to filterInnermostElements
MaxHeadings == 2   \* most children of an element handed to isAIReviewComment
MaxKids == 4       \* most children of a comment handed to extractSection

PureInit ==
  /\ Detached
  /\ formatCount = [p \in SlotPaths |-> 0]
  /\ pc = "idle"
  /\ cur = NoScan
  /\ parts = NoParts
  /\ result = NoCall

PureUnchanged ==
  /\ UNCHANGED <<doc, formatCount, pc, cur, parts, arg>>
  /\ DetachedUnchanged

RECURSIVE SeqsUpTo(_, _)
SeqsUpTo(S, n) ==
  IF n = 0 THEN {<<>>}
  ELSE LET shorter == SeqsUpTo(S, n - 1) IN
       shorter \cup {Append(q, x) : q \in shorter, x \in S}

\* The elements of a small tree: a root, two children, four grandchildren.
TreeElements ==
  {<<>>} \cup {<<i>> : i \in 1..2} \cup {<<i, j>> : i \in 1..2, j \in 1..2}

FilterInit ==
  /\ PureInit
  /\ doc = Placeholder
  /\ arg \in SeqsUpTo(TreeElements, MaxList)

CallFilter ==
  /\ result.f = "none"
  /\ result' = [f |-> "filterInnermostElements", value |-> filterInnermostElements(arg)]
  /\ PureUnchanged

SpecFilter == FilterInit /\ [][CallFilter]_vars

ProperAncestor(a, b) == a # b /\ Len(a) < Len(b) /\ \A k \in 1..Len(a) : a[k] = b[k]

Occurrences(q, e) == Cardinality({k \in 1..Len(q) : q[k] = e})

RECURSIVE IsSubsequence(_, _)
IsSubsequence(a, b) ==
  IF a = <<>> THEN TRUE
  ELSE IF b = <<>> THEN FALSE
  ELSE IF Head(a) = Head(b) THEN IsSubsequence(Tail(a), Tail(b))
  ELSE IsSubsequence(a, Tail(b))

\* C8: the result keeps, in input order, exactly the input elements that are
\* a proper ancestor of no input element; no two results nest; an input
\* without nesting comes back unchanged, an empty input empty.
C8_InnermostFilter ==
  result.f = "filterInnermostElements" =>
    LET out == result.value IN
    /\ IsSubsequence(out, arg)
    /\ \A e \in Range(arg) :
         Occurrences(out, e) =
           IF \E o \in Range(arg) : ProperAncestor(e, o) THEN 0 ELSE Occurrences(arg, e)
    /\ \A a \in Range(out), b \in Range(out) : ~ ProperAncestor(a, b)
    /\ (\A a \in Range(arg), b \in Range(arg) : ~ ProperAncestor(a, b)) => out = arg
    /\ arg = <<>> => out = <<>>

\* An ancestor was dropped, its descendant and an unrelated element kept.
C8_Witness ==
  /\ result.f = "filterInnermostElements"
  /\ arg = << <<1>>, <<2>>, <<1, 2>> >>
  /\ result.value = << <<2>>, <<1, 2>> >>

\* Children of an element handed to the detector: headings with every
\* combination of the marker token and two icons, a paragraph carrying the
\* signature text, and a heading one level down.
DetectKids ==
  {Text("H3", t) : t \in SUBSET {SeverityToken, "icon_red", "icon_warn"}}
    \cup {Text("P", {SeverityToken, "icon_red"}),
          Wrap("DIV", <<Text("H3", {SeverityToken, "icon_blue"})>>)}

DetectInit ==
  /\ PureInit
  /\ doc \in {CommentBody(kids) : kids \in SeqsUpTo(DetectKids, MaxHeadings)}
  /\ arg = <<>>

CallDetect ==
  /\ result.f = "none"
  /\ result' = [f |-> "isAIReviewComment", value |-> isAIReviewComment(doc, arg)]
  /\ PureUnchanged

SpecDetect == DetectInit /\ [][CallDetect]_vars

HeadingsOf(d, element) ==
  {h \in Range(Descendants(d, element)) : At(d, h).tag = "H3"}

HasSignature(e) ==
  SeverityToken \in TextContent(e) /\ TextContent(e) \cap severityIcons # {}

\* C7: the detector answers true exactly when some heading of the element
\* carries both the marker token and a severity icon.
C7_SignatureGating ==
  result.f = "isAIReviewComment" =>
    (result.value <=> \E h \in HeadingsOf(doc, arg) : HasSignature(At(doc, h)))

\* Children of a comment handed to the section extractor.
StrongIssue == Text("STRONG", {sectionLabels.issue})
StrongSuggestion == Text("STRONG", {sectionLabels.suggestion})
Quote == Wrap("BLOCKQUOTE", <<Text("P", {"quoted"})>>)
ExtractKids ==
  {StrongIssue, StrongSuggestion, Wrap("P", <<StrongIssue>>),
   Wrap("P", <<StrongSuggestion>>), Text("P", {"prose"}), Hr, Quote}

ExtractInit ==
  /\ PureInit
  /\ doc \in {CommentBody(kids) : kids \in SeqsUpTo(ExtractKids, MaxKids)}
  /\ arg = <<>>

CallExtract(label) ==
  /\ result.f = "none"
  /\ result' = [f |-> "extractSection", label |-> label,
                value |-> extractSection(doc, arg, label)]
  /\ PureUnchanged

ExtractNext == \E label \in {sectionLabels.issue, sectionLabels.suggestion} : CallExtract(label)

SpecExtract == ExtractInit /\ [][ExtractNext]_vars

\* A section boundary: a horizontal rule, or an emphasis-labelled element,
\* bare or wrapped.
IsBoundary(d, q) ==
  \/ At(d, q).tag \in {"HR", "STRONG"}
  \/ \E s \in Range(Descendants(d, q)) : At(d, s).tag = "STRONG"

\* The quoted block of the section whose header is anchor: the first
\* following sibling that is a quoted block or a boundary, if it is a quoted
\* block.
SectionQuote(d, anchor) ==
  LET parent == SubSeq(anchor, 1, Len(anchor) - 1)
      at == anchor[Len(anchor)]
      stops == {j \in (at + 1)..Len(At(d, parent).kids) :
                  \/ At(d, Append(parent, j)).tag = "BLOCKQUOTE"
                  \/ IsBoundary(d, Append(parent, j))}
  IN IF stops = {} THEN Null
     ELSE LET first == CHOOSE j \in stops : \A k \in stops : j <= k IN
          IF At(d, Append(parent, first)).tag = "BLOCKQUOTE"
          THEN Append(parent, first) ELSE Null

\* C6: the extractor reports the first quoted block after the anchor unless
\* a horizontal rule or another emphasis-labelled element, bare or wrapped,
\* comes first, and then reports the header with no quoted block.
C6_SectionBoundary ==
  result.f = "extractSection" =>
    \/ result.value.header = Null /\ result.value.blockquote = Null
    \/ /\ result.value.header # Null
       /\ result.value.blockquote = SectionQuote(doc, result.value.header)

====
